---- MODULE Spec2Model ----
(***************************************************************************)
(* A model of forecast.py: module start-up (the .env file and API_KEY),    *)
(* main (argument parsing and the three stages get_coordinates,            *)
(* get_forecast, print_weather) and the exit status of the process.        *)
(*                                                                         *)
(* The two HTTP endpoints are the environment: each request is answered    *)
(* by a response chosen nondeterministically among the shapes the          *)
(* `requests` library can hand back (an exception raised by the call, an   *)
(* HTTP status, a body that is or is not JSON).                            *)
(***************************************************************************)
EXTENDS Integers, Sequences, FiniteSets, TLC

VARIABLES
    pc,         \* position of the process: "startup", "parse", "geocode",
                \* "forecast", "present", "exited"
    envFile,    \* does basedir/.env exist
    procKey,    \* API_KEY in the environment the process was started with
    fileKey,    \* API_KEY as .env defines it
    API_KEY,    \* the module-level global
    argv,       \* sys.argv[1:]
    city,       \* args.city
    country,    \* args.country
    coords,     \* the value main binds to coords
    forecast,   \* the value main binds to forecast
    requests,   \* the HTTP GETs issued so far, in order
    response,   \* what requests.get handed back to the latest of them
    out,        \* what the program's own print calls have written, in order
    stages,     \* the stages that have run so far, in order
    uncaught,   \* the exception that left main uncaught, or "none"
    exitCode    \* the exit status of the process (meaningful once exited)

vars == <<pc, envFile, procKey, fileKey, API_KEY, argv, city, country, coords,
          forecast, requests, response, out, stages, uncaught, exitCode>>

-----------------------------------------------------------------------------
(* Bounds of the model *)

\* longest JSON array the geocoding endpoint answers with
MaxResults == 2
\* longest 'list' of a forecast payload
MaxEntries == 2

-----------------------------------------------------------------------------
(* Python values *)

\* Python's None where a string may stand, and a variable absent from an
\* environment
NoneVal == "<None>"
Unset == "<unset>"

\* a JSON object with no keys
EmptyObj == [k \in {} |-> 0]

\* truth value of a str-or-None, as `if not API_KEY` and `if country` test it
TruthyStr(s) == s # NoneVal /\ s # ""

-----------------------------------------------------------------------------
(* What print writes.  A line is the format string with the values         *)
(* substituted in it; colours are left out.                                *)

Blank == [text |-> "", city |-> "", country |-> "", time |-> "", temp |-> 0,
          desc |-> "", lat |-> 0, lon |-> 0, err |-> ""]

EnvFileMissingMsg ==
    [Blank EXCEPT !.text = "Error: .env file not found. Please create a .env file in the base directory."]
ApiKeyMissingMsg ==
    [Blank EXCEPT !.text = "Error: API_KEY not found in .env file. Please add your OpenWeatherMap API key."]
UsageMsg ==
    [Blank EXCEPT !.text = "Error: Invalid command. You must provide a city name. Example: python forecast.py 'New York'"]
CityNotFoundMsg(c) ==
    [Blank EXCEPT !.text = "Error: City {city} not found.", !.city = c]
InvalidKeyMsg ==
    [Blank EXCEPT !.text = "Error: Invalid API key"]
GenericErrorMsg(e) ==
    [Blank EXCEPT !.text = "Error:  {err}", !.err = e]
NoCoordinatesMsg(c) ==
    [Blank EXCEPT !.text = "Error: Unable to fetch coordinates for city {city}.", !.city = c]
NoForecastMsg(la, lo) ==
    [Blank EXCEPT !.text = "Error: Unable to fetch forecast data for coordinates lat:{lat} lon:{lon}",
                  !.lat = la, !.lon = lo]
HeaderLine(c, cc) ==
    [Blank EXCEPT !.text = "Current weather forecast for {}, {}:", !.city = c, !.country = cc]
EntryLine(t, tp, d) ==
    [Blank EXCEPT !.text = "\t{}: {} degrees F, {}", !.time = t, !.temp = tp, !.desc = d]

-----------------------------------------------------------------------------
(* Module start-up *)

\* load_dotenv(path) followed by environ.get("API_KEY"): load_dotenv leaves a
\* variable the environment already holds as it is (override is off), and
\* environ.get returns None for a variable that is still absent
LoadDotenv_Override(env, file) ==
    IF file # Unset THEN file ELSE IF env # Unset THEN env ELSE NoneVal
LoadDotenv(env, file) ==
    IF env # Unset THEN env ELSE IF file # Unset THEN file ELSE NoneVal

Startup ==
    /\ pc = "startup"
    /\ stages' = Append(stages, "startup")
    /\ IF ~envFile
         THEN /\ out' = Append(out, EnvFileMissingMsg)
              /\ exitCode' = 1
              /\ pc' = "exited"
              /\ UNCHANGED API_KEY
         ELSE /\ API_KEY' = LoadDotenv(procKey, fileKey)
              /\ IF ~TruthyStr(API_KEY')
                   THEN /\ out' = Append(out, ApiKeyMissingMsg)
                        /\ exitCode' = 1
                        /\ pc' = "exited"
                   ELSE /\ pc' = "parse"
                        /\ UNCHANGED <<out, exitCode>>
    /\ UNCHANGED <<envFile, procKey, fileKey, argv, city, country, coords,
                   forecast, requests, response, uncaught>>

-----------------------------------------------------------------------------
(* main: argument parsing *)

\* the command lines tried
Argvs ==
    { <<>>,
      <<"--help">>,
      <<"--country", "us">>,
      <<"New York", "--country">>,
      <<"Paris", "London">>,
      <<"New York">>,
      <<"Paris", "--country", "fr">>,
      <<"--country", "", "Paris">> }

SystemExit(code) == [exit |-> TRUE, code |-> code, city |-> "", country |-> NoneVal]

\* parser.parse_args() for the parser of main: one required positional (city)
\* and the option --country taking one value (default None).  argparse raises
\* SystemExit(0) after printing the help for -h/--help, and SystemExit(2) for a
\* missing city, an option without its value or a positional too many.
RECURSIVE Scan(_, _, _)
Scan(rest, positionals, cc) ==
    IF rest = <<>>
      THEN IF Len(positionals) = 1
             THEN [exit |-> FALSE, code |-> 0, city |-> positionals[1], country |-> cc]
             ELSE SystemExit(2)
      ELSE IF Head(rest) \in {"-h", "--help"}
        THEN SystemExit(0)
      ELSE IF Head(rest) = "--country"
        THEN IF Len(rest) < 2
               THEN SystemExit(2)
               ELSE Scan(SubSeq(rest, 3, Len(rest)), positionals, rest[2])
      ELSE Scan(Tail(rest), Append(positionals, Head(rest)), cc)

ParseArgs_OptionalCity(args) ==
    IF args = <<>>
      THEN [exit |-> FALSE, code |-> 0, city |-> "", country |-> NoneVal]
      ELSE Scan(args, <<>>, NoneVal)
ParseArgs(args) == Scan(args, <<>>, NoneVal)

\* main up to the call of get_coordinates: any SystemExit of the parser is
\* caught, the usage example is printed and the process exits with status 1
MainParse ==
    /\ pc = "parse"
    /\ stages' = Append(stages, "parse")
    /\ LET args == ParseArgs(argv) IN
         IF args.exit
           THEN /\ out' = Append(out, UsageMsg)
                /\ exitCode' = 1
                /\ pc' = "exited"
                /\ UNCHANGED <<city, country>>
           ELSE /\ city' = args.city
                /\ country' = args.country
                /\ pc' = "geocode"
                /\ UNCHANGED <<out, exitCode>>
    /\ UNCHANGED <<envFile, procKey, fileKey, API_KEY, argv, coords, forecast,
                   requests, response, uncaught>>

-----------------------------------------------------------------------------
(* The answers of the HTTP endpoints *)

GEOCODE_URL == "http://api.openweathermap.org/geo/1.0/direct"
FORECAST_URL == "https://api.openweathermap.org/data/2.5/forecast"

\* sequences over S of length at most n
SeqsUpTo(S, n) == UNION {[1..k -> S] : k \in 0..n}

\* Response.raise_for_status() raises HTTPError for a 4xx or 5xx status
RaisesForStatus(status) == status >= 400 /\ status < 600

OkStatuses == {200}
ErrorStatuses == {401, 404, 500}

\* location objects of the geocoding endpoint: two places as (lat, lon), and
\* objects lacking lat, lon or both
Places == {<<0, 0>>, <<40, 74>>}
Locations ==
    {[lat |-> p[1], lon |-> p[2]] : p \in Places}
    \cup {[lat |-> 40], [lon |-> 74], EmptyObj}

NoBody == [json |-> "invalid", arr |-> <<>>, obj |-> EmptyObj]

\* bodies of a geocoding answer: not JSON, null, an array of locations, or an
\* object (as the API sends with an error description)
GeoBodies ==
    [json : {"invalid", "null"}, arr : {<<>>}, obj : {EmptyObj}]
    \cup [json : {"array"}, arr : SeqsUpTo(Locations, MaxResults), obj : {EmptyObj}]
    \cup [json : {"object"}, arr : {<<>>}, obj : {EmptyObj, [message |-> "x"]}]

\* what requests.get hands back: an exception raised by the call itself
\* (exc), or a response with a status and a body
Failures == [exc : {"RequestException", "Exception"}, status : {0}, body : {NoBody}]
ErrorResponses == [exc : {"none"}, status : ErrorStatuses, body : {NoBody}]
NoResponse == [exc |-> "none", status |-> 0, body |-> NoBody]
GeoResponses ==
    Failures \cup ErrorResponses
    \cup [exc : {"none"}, status : OkStatuses, body : GeoBodies]

\* truth value of decoded JSON, as `if data` tests it
TruthyJson(body) ==
    CASE body.json = "null" -> FALSE
      [] body.json = "array" -> body.arr # <<>>
      [] body.json = "object" -> DOMAIN body.obj # {}

-----------------------------------------------------------------------------
(* get_coordinates *)

NoneResult == [none |-> TRUE, items |-> <<>>]
Tuple(a, b) == [none |-> FALSE, items |-> <<a, b>>]

\* truth value of None or a tuple, as `if not coords` tests it
TruthyTuple(v) == ~v.none /\ Len(v.items) > 0

Returns(v, printed) == [ret |-> v, printed |-> printed, raised |-> "none"]
Raises(e) == [ret |-> NoneResult, printed |-> <<>>, raised |-> e]

GeocodeParams(c, cc, key) ==
    IF TruthyStr(cc)
      THEN [q |-> c \o "," \o cc, limit |-> 1, appid |-> key]
      ELSE [q |-> c, limit |-> 1, appid |-> key]

GeocodeHTTPErrorMsg_Swapped(status, c) ==
    IF status = 401 THEN CityNotFoundMsg(c)
    ELSE IF status = 404 THEN InvalidKeyMsg
    ELSE GenericErrorMsg("HTTPError")
GeocodeHTTPErrorMsg(status, c) ==
    IF status = 404 THEN CityNotFoundMsg(c)
    ELSE IF status = 401 THEN InvalidKeyMsg
    ELSE GenericErrorMsg("HTTPError")

\* data[0]['lat'], data[0]['lon'] for truthy decoded JSON
FirstLatLon_Last(body) ==
    IF body.json = "object" THEN Raises("KeyError: 0")
    ELSE LET first == body.arr[Len(body.arr)] IN
         IF "lat" \notin DOMAIN first THEN Raises("KeyError: 'lat'")
         ELSE IF "lon" \notin DOMAIN first THEN Raises("KeyError: 'lon'")
         ELSE Returns(Tuple(first["lat"], first["lon"]), <<>>)
FirstLatLon(body) ==
    IF body.json = "object" THEN Raises("KeyError: 0")
    ELSE LET first == body.arr[1] IN
         IF "lat" \notin DOMAIN first THEN Raises("KeyError: 'lat'")
         ELSE IF "lon" \notin DOMAIN first THEN Raises("KeyError: 'lon'")
         ELSE Returns(Tuple(first["lat"], first["lon"]), <<>>)

\* get_coordinates(city, country) when requests.get answers with resp: the
\* value returned, the lines printed and the exception raised out of it
get_coordinates(c, cc, resp) ==
    IF resp.exc # "none"
      THEN Returns(NoneResult, <<GenericErrorMsg(resp.exc)>>)
    ELSE IF RaisesForStatus(resp.status)
      THEN Returns(NoneResult, <<GeocodeHTTPErrorMsg(resp.status, c)>>)
    ELSE IF resp.body.json = "invalid"
      THEN Raises("JSONDecodeError")
    ELSE IF TruthyJson(resp.body)
      THEN FirstLatLon(resp.body)
    ELSE Returns(NoneResult, <<NoCoordinatesMsg(c)>>)

\* main after get_coordinates returned v: `if not coords: sys.exit(1)`
AfterGeocode_Retry(v) ==
    IF ~TruthyTuple(v) THEN [pc |-> "geocode", exitCode |-> 0]
                       ELSE [pc |-> "forecast", exitCode |-> 0]
AfterGeocode(v) ==
    IF ~TruthyTuple(v) THEN [pc |-> "exited", exitCode |-> 1]
                       ELSE [pc |-> "forecast", exitCode |-> 0]

\* main, the call of get_coordinates and the test of its result.  An exception
\* that leaves get_coordinates leaves main too: the interpreter prints the
\* traceback and exits with status 1.
MainGeocode ==
    /\ pc = "geocode"
    /\ stages' = Append(stages, "geocode")
    /\ requests' = Append(requests, [url |-> GEOCODE_URL,
                                     params |-> GeocodeParams(city, country, API_KEY)])
    /\ \E resp \in GeoResponses :
         LET r == get_coordinates(city, country, resp) IN
           /\ response' = resp
           /\ out' = out \o r.printed
           /\ IF r.raised # "none"
                THEN /\ uncaught' = r.raised
                     /\ exitCode' = 1
                     /\ pc' = "exited"
                     /\ UNCHANGED coords
                ELSE /\ coords' = r.ret
                     /\ pc' = AfterGeocode(r.ret).pc
                     /\ exitCode' = AfterGeocode(r.ret).exitCode
                     /\ UNCHANGED uncaught
    /\ UNCHANGED <<envFile, procKey, fileKey, API_KEY, argv, city, country, forecast>>

-----------------------------------------------------------------------------
(* get_forecast *)

Times == {"2024-01-01 12:00:00", "2024-01-01 15:00:00"}
Temps == {32, 75}
Descs == {"clear sky", "light rain"}

\* entries of a forecast 'list' holding dt_txt, main.temp and
\* weather[0].description
WellFormedEntries ==
    [dt_txt : Times, main : [temp : Temps],
     weather : {<<[description |-> d]>> : d \in Descs}]

\* entries lacking one of them, one for each lookup that can fail
MalformedEntries ==
    LET t == "2024-01-01 18:00:00"
        m == [temp |-> 50]
        w == <<[description |-> "mist"]>>
    IN  { [main |-> m, weather |-> w],
          [dt_txt |-> t, weather |-> w],
          [dt_txt |-> t, main |-> EmptyObj, weather |-> w],
          [dt_txt |-> t, main |-> m],
          [dt_txt |-> t, main |-> m, weather |-> <<>>],
          [dt_txt |-> t, main |-> m, weather |-> <<EmptyObj>>] }

Entries == WellFormedEntries \cup MalformedEntries

\* bodies of a forecast answer: not JSON, null, an (empty) array, or an object
\* with or without the key 'list'
ForecastBodies ==
    [json : {"invalid", "null"}, arr : {<<>>}, obj : {EmptyObj}]
    \cup [json : {"array"}, arr : {<<>>}, obj : {EmptyObj}]
    \cup [json : {"object"}, arr : {<<>>},
          obj : {EmptyObj, [message |-> "x"]}
                \cup {[list |-> l] : l \in SeqsUpTo(Entries, MaxEntries)}]

ForecastResponses ==
    Failures \cup ErrorResponses
    \cup [exc : {"none"}, status : OkStatuses, body : ForecastBodies]

NoneData == [none |-> TRUE, obj |-> EmptyObj]
Data(o) == [none |-> FALSE, obj |-> o]

\* truth value of None or a dict, as `if not forecast` tests it
TruthyDict(v) == ~v.none /\ DOMAIN v.obj # {}

ForecastParams(la, lo, key) ==
    [lat |-> la, lon |-> lo, appid |-> key, units |-> "imperial", lang |-> "en"]

ForecastHTTPErrorMsg_Coordinates(status, c, la, lo) ==
    IF status = 404 THEN NoForecastMsg(la, lo)
    ELSE IF status = 401 THEN InvalidKeyMsg
    ELSE GenericErrorMsg("HTTPError")
ForecastHTTPErrorMsg(status, c, la, lo) ==
    IF status = 404 THEN CityNotFoundMsg(c)
    ELSE IF status = 401 THEN InvalidKeyMsg
    ELSE GenericErrorMsg("HTTPError")

\* get_forecast(city, lat, lon) when requests.get answers with resp
get_forecast(c, la, lo, resp) ==
    IF resp.exc # "none"
      THEN Returns(NoneData, <<GenericErrorMsg(resp.exc)>>)
    ELSE IF RaisesForStatus(resp.status)
      THEN Returns(NoneData, <<ForecastHTTPErrorMsg(resp.status, c, la, lo)>>)
    ELSE IF resp.body.json = "invalid"
      THEN Raises("JSONDecodeError")
    ELSE IF resp.body.json = "null"
      THEN Raises("TypeError")
    ELSE IF resp.body.json = "object" /\ "list" \in DOMAIN resp.body.obj
      THEN Returns(Data(resp.body.obj), <<>>)
    ELSE Returns(NoneData, <<NoForecastMsg(la, lo)>>)

\* main after get_forecast returned v: `if not forecast: sys.exit(1)`
AfterForecast(v) ==
    IF ~TruthyDict(v) THEN [pc |-> "exited", exitCode |-> 1]
                      ELSE [pc |-> "present", exitCode |-> 0]

\* main, `lat, lon = coords`, the call of get_forecast and the test of its
\* result
MainForecast ==
    /\ pc = "forecast"
    /\ stages' = Append(stages, "forecast")
    /\ LET lat == coords.items[1]
           lon == coords.items[2]
       IN
         /\ requests' = Append(requests, [url |-> FORECAST_URL,
                                          params |-> ForecastParams(lat, lon, API_KEY)])
         /\ \E resp \in ForecastResponses :
              LET r == get_forecast(city, lat, lon, resp) IN
                /\ response' = resp
                /\ out' = out \o r.printed
                /\ IF r.raised # "none"
                     THEN /\ uncaught' = r.raised
                          /\ exitCode' = 1
                          /\ pc' = "exited"
                          /\ UNCHANGED forecast
                     ELSE /\ forecast' = r.ret
                          /\ pc' = AfterForecast(r.ret).pc
                          /\ exitCode' = AfterForecast(r.ret).exitCode
                          /\ UNCHANGED uncaught
    /\ UNCHANGED <<envFile, procKey, fileKey, API_KEY, argv, city, country, coords>>

-----------------------------------------------------------------------------
(* print_weather *)

\* the exception the three lookups of the loop body raise on entry e ("none"
\* when they all succeed), in the order the body makes them
EntryError(e) ==
    IF "dt_txt" \notin DOMAIN e THEN "'dt_txt'"
    ELSE IF "main" \notin DOMAIN e THEN "'main'"
    ELSE IF "temp" \notin DOMAIN e.main THEN "'temp'"
    ELSE IF "weather" \notin DOMAIN e THEN "'weather'"
    ELSE IF e.weather = <<>> THEN "list index out of range"
    ELSE IF "description" \notin DOMAIN e.weather[1] THEN "'description'"
    ELSE "none"

FormatEntry_Swapped(e) == EntryLine(e.dt_txt, e.main.temp, e.dt_txt)
FormatEntry(e) == EntryLine(e.dt_txt, e.main.temp, e.weather[1].description)

\* the loop over data['list'] from entry i on: a line for each entry, until an
\* entry raises; the handler prints the error and the function returns
RECURSIVE PrintEntries(_, _, _)
PrintEntries(list, i, printed) ==
    IF i > Len(list) THEN printed
    ELSE IF EntryError(list[i]) # "none"
      THEN Append(printed, GenericErrorMsg(EntryError(list[i])))
    ELSE PrintEntries(list, i + 1, Append(printed, FormatEntry(list[i])))

RECURSIVE PrintEntries_Skip(_, _, _)
PrintEntries_Skip(list, i, printed) ==
    IF i > Len(list) THEN printed
    ELSE IF EntryError(list[i]) # "none"
      THEN PrintEntries_Skip(list, i + 1,
                             Append(printed, GenericErrorMsg(EntryError(list[i]))))
    ELSE PrintEntries_Skip(list, i + 1, Append(printed, FormatEntry(list[i])))

\* the lines print_weather(city, country, data) prints
print_weather_Skip(c, cc, data) ==
    PrintEntries_Skip(data.obj["list"], 1, <<HeaderLine(c, cc)>>)
print_weather(c, cc, data) ==
    PrintEntries(data.obj["list"], 1, <<HeaderLine(c, cc)>>)

\* main, the call of print_weather; main returns and the process ends with
\* status 0
MainPresent ==
    /\ pc = "present"
    /\ stages' = Append(stages, "present")
    /\ out' = out \o print_weather(city, country, forecast)
    /\ pc' = "exited"
    /\ exitCode' = 0
    /\ UNCHANGED <<envFile, procKey, fileKey, API_KEY, argv, city, country, coords,
                   forecast, requests, response, uncaught>>

-----------------------------------------------------------------------------
(* The process *)

Init ==
    /\ pc = "startup"
    /\ envFile \in BOOLEAN
    /\ procKey \in {Unset, "", "env-key"}
    /\ fileKey \in {Unset, "", "file-key"}
    /\ API_KEY = NoneVal
    /\ argv \in Argvs
    /\ city = ""
    /\ country = NoneVal
    /\ coords = NoneResult
    /\ forecast = NoneData
    /\ requests = <<>>
    /\ response = NoResponse
    /\ out = <<>>
    /\ stages = <<>>
    /\ uncaught = "none"
    /\ exitCode = 0

Next ==
    \/ Startup
    \/ MainParse
    \/ MainGeocode
    \/ MainForecast
    \/ MainPresent

Spec == Init /\ [][Next]_vars

-----------------------------------------------------------------------------
(* Vocabulary of the properties *)

Range(f) == {f[i] : i \in DOMAIN f}
IsPrefix(s, t) == Len(s) <= Len(t) /\ s = SubSeq(t, 1, Len(s))
Urls == [i \in DOMAIN requests |-> requests[i].url]
Ran(stage) == stage \in Range(stages)
Exited == pc = "exited"

\* the format strings of the forecast output, of the messages that carry the
\* city and of the messages that carry the coordinates
ForecastTexts == {HeaderLine("", "").text, EntryLine("", 0, "").text}
IsErrorLine(l) == l.text \notin ForecastTexts
NamesCity(l) == l.text \in {CityNotFoundMsg("").text, NoCoordinatesMsg("").text}
NamesCoordinates(l) == l.text = NoForecastMsg(0, 0).text

\* the forecast was printed: the Presenter ran and printed no error
FullSuccess == Ran("present") /\ \A i \in DOMAIN out : ~IsErrorLine(out[i])

\* the stage ran and handed main no result
GeocodeFailed == Ran("geocode") /\ ~TruthyTuple(coords)
ForecastFailed == Ran("forecast") /\ ~TruthyDict(forecast)

\* the latest request was answered with an HTTP error status
HTTPErrorAnswer(url, status) ==
    /\ requests # <<>>
    /\ requests[Len(requests)].url = url
    /\ response.exc = "none"
    /\ response.status = status

-----------------------------------------------------------------------------
\* C1: a run exits with status 0 exactly when the forecast was printed without
\* an error, and with status 1 on every failure, malformed forecast data
\* included.  (Stated as the claim has it; print_weather catches the lookup
\* failure and main returns normally, so the run exits 0.)
C1_ExitCodeIsZeroIffFullSuccess ==
    Exited => /\ exitCode = 0 <=> FullSuccess
              /\ ~FullSuccess => exitCode = 1

-----------------------------------------------------------------------------
-----------------------------------------------------------------------------
\* C3: an HTTP error status from either endpoint prints exactly one message,
\* chosen by the status (404: city not found; 401: invalid API key; any other:
\* the generic error with the error text), the stage returns nothing and the
\* run exits with status 1.
C3_HTTPErrorMessageByStatus ==
    \A url \in {GEOCODE_URL, FORECAST_URL} : \A status \in ErrorStatuses :
      HTTPErrorAnswer(url, status) =>
        /\ Exited /\ exitCode = 1 /\ uncaught = "none"
        /\ IF url = GEOCODE_URL THEN coords.none ELSE forecast.none
        /\ out = << CASE status = 404 -> CityNotFoundMsg(city)
                      [] status = 401 -> InvalidKeyMsg
                      [] OTHER -> GenericErrorMsg("HTTPError") >>

\* the geocoding endpoint answered 401
C3_Witness == Exited /\ HTTPErrorAnswer(GEOCODE_URL, 401)

-----------------------------------------------------------------------------
\* C4 as the claim has it: when the forecast endpoint answers 404 the message
\* printed names the coordinates and not the city.
C4_Forecast404NamesCoordinates ==
    HTTPErrorAnswer(FORECAST_URL, 404) =>
      /\ out # <<>>
      /\ NamesCoordinates(out[Len(out)])
      /\ ~NamesCity(out[Len(out)])

\* C4 as amended: when the forecast endpoint answers 404 the message printed
\* names the city the run was asked about and not the coordinates.
C4_Forecast404NamesCity ==
    HTTPErrorAnswer(FORECAST_URL, 404) =>
      /\ out # <<>>
      /\ NamesCity(out[Len(out)])
      /\ out[Len(out)].city = city
      /\ ~NamesCoordinates(out[Len(out)])

\* the forecast endpoint answered 404 for coordinates other than (0, 0)
C4_Witness ==
    Exited /\ HTTPErrorAnswer(FORECAST_URL, 404) /\ coords.items = <<40, 74>>

-----------------------------------------------------------------------------
\* C5: for a successful geocode answer that is an array: if it is not empty
\* (and its first element holds lat and lon) get_coordinates returns exactly
\* the first element's (lat, lon), whatever follows, and main goes on to the
\* forecast stage, also for (0, 0); if it is empty, the "unable to fetch
\* coordinates" message is printed, nothing is returned and main exits 1
\* without a forecast request.
GeocodeArrayAnswer ==
    /\ Ran("geocode") /\ Len(requests) = 1
    /\ response.exc = "none" /\ response.status \in OkStatuses
    /\ response.body.json = "array"

C5_FirstResultOrFailure ==
    GeocodeArrayAnswer =>
      LET arr == response.body.arr IN
        /\ (arr # <<>> /\ DOMAIN arr[1] = {"lat", "lon"}) =>
             /\ coords = Tuple(arr[1]["lat"], arr[1]["lon"])
             /\ pc = "forecast" /\ out = <<>> /\ uncaught = "none"
        /\ arr = <<>> =>
             /\ coords.none
             /\ out = <<NoCoordinatesMsg(city)>>
             /\ Exited /\ exitCode = 1 /\ ~Ran("forecast")

\* two results, the first at (0, 0), the second elsewhere
C5_Witness ==
    /\ GeocodeArrayAnswer
    /\ Len(response.body.arr) = 2
    /\ response.body.arr[1] = [lat |-> 0, lon |-> 0]
    /\ response.body.arr[2] = [lat |-> 40, lon |-> 74]
    /\ pc = "forecast"

-----------------------------------------------------------------------------
\* C6: for a payload whose N entries are all well-formed, print_weather prints
\* the header and then exactly N lines, the i-th carrying dt_txt, main.temp and
\* weather[0].description of the i-th entry, and no error.
Presented == Exited /\ Ran("present")
List == forecast.obj["list"]
Malformed(i) == List[i] \notin WellFormedEntries

C6_OneLinePerEntryInOrder ==
    (Presented /\ \A i \in DOMAIN List : ~Malformed(i)) =>
      /\ Len(out) = Len(List) + 1
      /\ out[1] = HeaderLine(city, country)
      /\ \A i \in DOMAIN List :
           /\ out[i + 1].text = EntryLine("", 0, "").text
           /\ out[i + 1].time = List[i]["dt_txt"]
           /\ out[i + 1].temp = List[i]["main"]["temp"]
           /\ out[i + 1].desc = List[i]["weather"][1]["description"]
      /\ \A i \in DOMAIN out : ~IsErrorLine(out[i])

\* two well-formed entries that differ in all three fields
C6_Witness ==
    /\ Presented
    /\ Len(List) = 2
    /\ ~Malformed(1) /\ ~Malformed(2)
    /\ List[1]["dt_txt"] # List[2]["dt_txt"]
    /\ List[1]["main"] # List[2]["main"]
    /\ List[1]["weather"] # List[2]["weather"]

-----------------------------------------------------------------------------
\* C7: no exception leaves a stage, and no failing run ends without an error
\* message printed by the program.  (Stated as the claim has it;
\* response.json() and the lookups data[0]['lat'], data[0]['lon'] and
\* 'list' in data stand in the else clauses, outside the handlers.)
C7_EveryErrorCaughtAndReported ==
    /\ uncaught = "none"
    /\ (Exited /\ exitCode # 0) => \E i \in DOMAIN out : IsErrorLine(out[i])

-----------------------------------------------------------------------------
\* C8 as the claim has it: when .env is missing or defines no non-empty
\* API_KEY, the run prints the dedicated message and exits 1 before parsing
\* arguments and before any request; every request carries a non-empty
\* API_KEY.
StoppedAtStartup ==
    /\ Exited /\ exitCode = 1
    /\ stages = <<"startup">>
    /\ requests = <<>>
    /\ out \in {<<EnvFileMissingMsg>>, <<ApiKeyMissingMsg>>}

RequestsCarryKey ==
    \A i \in DOMAIN requests :
      requests[i].params.appid = API_KEY /\ API_KEY \notin {NoneVal, Unset, ""}

C8_NoKeyInFileStopsStartup ==
    /\ (Ran("startup") /\ (~envFile \/ fileKey \in {Unset, ""})) => StoppedAtStartup
    /\ RequestsCarryKey

\* C8 as amended: the run stops at start-up exactly when .env is missing or
\* API_KEY is absent or empty once .env is loaded, where a value the process
\* environment already holds (even an empty one) stands and .env supplies the
\* value only when the environment has none; every request carries a
\* non-empty API_KEY.
KeyAvailable ==
    /\ envFile
    /\ procKey = Unset => fileKey \notin {Unset, ""}
    /\ procKey # Unset => procKey # ""

C8_NoKeyAfterLoadingStopsStartup ==
    /\ Ran("startup") =>
         /\ ~KeyAvailable => StoppedAtStartup
         /\ KeyAvailable => Ran("parse") \/ pc = "parse"
         /\ ~envFile => out = <<EnvFileMissingMsg>>
         /\ (envFile /\ ~KeyAvailable) => out = <<ApiKeyMissingMsg>>
    /\ RequestsCarryKey

\* .env exists and defines an empty API_KEY, the environment holds none
C8_Witness ==
    /\ StoppedAtStartup
    /\ envFile /\ procKey = Unset /\ fileKey = ""

-----------------------------------------------------------------------------
\* C9: a command line without a city prints the usage example and exits with
\* status 1, and no request is issued.
NoCityArgument == argv \in {<<>>, <<"--help">>, <<"--country", "us">>}

C9_NoCityPrintsUsageAndExits1 ==
    (Ran("parse") /\ NoCityArgument) =>
      /\ Exited /\ exitCode = 1
      /\ out = <<UsageMsg>>
      /\ requests = <<>>
      /\ stages = <<"startup", "parse">>

\* the empty command line was parsed
C9_Witness == Ran("parse") /\ argv = <<>> /\ Exited

-----------------------------------------------------------------------------
\* C10: when the first malformed entry of the payload is at index k (from 0),
\* print_weather prints the header, the k lines of the entries before it, in
\* order, and then one generic error, and nothing for the entries from k on.
FirstMalformed(k) ==
    /\ k \in DOMAIN List
    /\ Malformed(k)
    /\ \A i \in 1..(k - 1) : ~Malformed(i)

C10_StopsAtFirstMalformedEntry ==
    Presented =>
      \A k \in DOMAIN List :
        FirstMalformed(k) =>
          /\ uncaught = "none"
          /\ Len(out) = k + 1
          /\ out[1] = HeaderLine(city, country)
          /\ \A i \in 1..(k - 1) :
               /\ out[i + 1].text = EntryLine("", 0, "").text
               /\ out[i + 1].time = List[i]["dt_txt"]
               /\ out[i + 1].temp = List[i]["main"]["temp"]
               /\ out[i + 1].desc = List[i]["weather"][1]["description"]
          /\ out[k + 1].text = GenericErrorMsg("").text
          /\ \A i \in 1..k : ~IsErrorLine(out[i])

\* a well-formed entry followed by a malformed one
C10_Witness ==
    Presented /\ Len(List) = 2 /\ FirstMalformed(2)

====
